---- MODULE Spec2Model ----
(***************************************************************************)
(* A model of the tile resource lifecycle machinery of rocky:              *)
(*   - SentryTracker           (src/rocky/Utils.h)                         *)
(*   - PriorityUpdateQueue     (src/rocky/vsg/VSGContext.cpp)              *)
(*   - the deferred disposal queue of VSGContextImpl (VSGContext.cpp)      *)
(*   - the tile URI memoization of BingImageLayer (BingImageLayer.cpp)     *)
(* Each component has its own specification (SpecRing, SpecTracker,        *)
(* SpecQueue, SpecBing) over the same variables; a component's             *)
(* specification leaves the other components' variables unchanged.         *)
(***************************************************************************)
EXTENDS Integers, Sequences, FiniteSets, TLC

(***************************************************************************)
(* Bounds of the model.                                                    *)
(***************************************************************************)
\* number of distinct references handed to dispose() in one behaviour
MaxObjects == 3
\* number of entries (besides the sentry marker) a SentryTracker holds at once
MaxEntries == 2
\* number of distinct data values (tile keys) handed to SentryTracker::use
MaxKeys == 2
\* number of onNextUpdate(function, get_priority) calls in one behaviour
MaxTasks == 3
\* number of distinct tile keys requested from the BingImageLayer
MaxTileKeys == 2

(***************************************************************************)
(* Program constants.                                                      *)
(***************************************************************************)
\* _disposal_queue.resize(8)
DisposalGenerations == 8

\* a null vsg::ref_ptr<vsg::Object>
NullObject == 0
\* the nullptr data and the nullptr token of the sentry marker
NullData == 0
NullToken == 0
\* a default-constructed Task (task = { }): its function is a null ref_ptr
NoTask == 0

VARIABLES
    \* ---- VSGContextImpl: deferred disposal ----
    disposal_queue,   \* std::deque<std::vector<ref_ptr<Object>>>: Seq of Seq of object
    viewerValid,      \* viewer.valid()
    disposer,         \* TRUE iff a custom disposer is installed
    disposerGot,      \* objects handed to the custom disposer
    nextObj,          \* number of references created so far (fresh ids 1..nextObj)
    releaseCount,     \* object -> number of times update() dropped its reference
    updatesSeen,      \* object -> number of ring advances since dispose(object),
                      \*           up to and including the one that released it
                      \*           (counted up to DisposalGenerations + 1)
    updateRet,        \* what update() returned when it was the most recent call on
                      \*   the context: "false" or "true", else "none"
    heldOver          \* the objects that were in the ring during an update() that
                      \*   returned at the viewer test

VARIABLES
    \* ---- SentryTracker ----
    list,             \* _list: Seq of [node, data, token]; node is the list node's identity
    sentryptr,        \* _sentryptr: the node the iterator designates
    heap,             \* Token objects on the heap: token -> node its iterator designates,
                      \*   NoNode when the token is not allocated
    touched,          \* tokens passed to or returned by use() since the last flush()/reset()
    created,          \* tokens created by use(data, nullptr) since the last flush()/reset()
    lastOp,           \* what the most recent operation did
    prevFull,         \* lastOp is a flush() and the operation before it was a flush()
                      \*   with an accept-all callback and maxCount above the number
                      \*   of entries
    recency           \* the tracked tokens in the order use() last touched them,
                      \*   latest first

ringVars == <<disposal_queue, viewerValid, disposer, disposerGot, nextObj,
              releaseCount, updatesSeen, updateRet, heldOver>>

VARIABLES
    \* ---- PriorityUpdateQueue and VSGContextImpl::onNextUpdate ----
    queue,            \* _queue: Seq of task ids, front first
    tasks,            \* task -> [state, prio, probe]: the Task's get_priority (NoPriority
                      \*   for nullptr, else the value it currently returns) and its
                      \*   function's Cancelable interface ("none", "live", "canceled")
    nextTask,         \* number of tasks created so far (fresh ids 1..nextTask)
    mutex,            \* _mutex: the thread that holds it, or NoThread
    pcRun,            \* where the update thread is in run(): "idle", "wait" (about to
                      \*   lock), "locked" (inside the lock scope), "exec", "reenter"
                      \*   (the running action is inside onNextUpdate's lock scope)
    task,             \* the local variable task of run()
    pcProd,           \* producer -> "idle" or "locked" (inside onNextUpdate's lock scope)
    argProd,          \* producer -> the task it is enqueueing
    refCount,         \* pq->referenceCount()
    opsAdded,         \* number of viewer->updateOperations->add(_priorityUpdateQueue) calls
    execCount,        \* task -> number of times its function's run() was called
    ranThisTick,      \* actions executed by the current (or last) run() invocation
    tickDiscarded,    \* canceled tasks discarded by the current (or last) run() invocation
    epoch             \* [ok, start, runs, changed]: the tasks pending when the last
                      \*   enqueue, cancellation or priority change ended, and the
                      \*   number of run() invocations completed since

VARIABLES
    \* ---- BingImageLayer ----
    tileURICache,     \* _tileURICache: tile key -> NoResult or the stored Result<URI>
    pcBing,           \* thread -> where it is in createImageImplementation
    keyBing,          \* thread -> the TileKey it was called with
    imageURI,         \* thread -> its local variable imageURI
    fetchCount,       \* tile key -> number of metadataURI.read(io) calls
    putCount,         \* tile key -> number of _tileURICache->put calls
    observed,         \* tile key -> the metadata results callers went on to use
    returned,         \* thread -> what its last call returned
    imageFailed       \* the tile keys for which a call that held a URI failed to read
                      \*   or decode the image

trackerVars == <<list, sentryptr, heap, touched, created, lastOp, prevFull, recency>>

queueVars == <<queue, tasks, nextTask, mutex, pcRun, task, pcProd, argProd,
               refCount, opsAdded, execCount, ranThisTick, tickDiscarded, epoch>>

bingVars == <<tileURICache, pcBing, keyBing, imageURI, fetchCount, putCount,
              observed, returned, imageFailed>>

vars == <<ringVars, trackerVars, queueVars, bingVars>>

Objects == 1..MaxObjects

(***************************************************************************)
(* Helpers on sequences.                                                   *)
(***************************************************************************)
Range(s) == { s[i] : i \in 1..Len(s) }

RECURSIVE Flatten(_)
Flatten(ss) == IF ss = <<>> THEN <<>> ELSE Head(ss) \o Flatten(Tail(ss))

\* number of occurrences of x in sequence s
Occurrences(s, x) == Cardinality({ i \in 1..Len(s) : s[i] = x })

(***************************************************************************)
(* VSGContextImpl: the deferred disposal queue.                            *)
(***************************************************************************)
\* ctor: _disposal_queue.resize(8)
RingStart ==
    /\ disposal_queue = [g \in 1..DisposalGenerations |-> <<>>]
    /\ viewerValid \in BOOLEAN
    /\ disposer = FALSE
    /\ disposerGot = {}
    /\ nextObj = 0
    /\ releaseCount = [o \in Objects |-> 0]
    /\ updatesSeen = [o \in Objects |-> 0]
    /\ updateRet = "none"
    /\ heldOver = {}

\* the objects the ring holds a reference to
InRing(o) == o \in Range(Flatten(disposal_queue))

\* mutant: the object is put into the oldest generation
EmplaceFront(q, object) == [q EXCEPT ![1] = Append(q[1], object)]

\* mutant: the object is put into the generation before the newest
EmplaceBackOffByOne(q, object) ==
    [q EXCEPT ![Len(q) - 1] = Append(q[Len(q) - 1], object)]

\* _disposal_queue.back().emplace_back(object)
EmplaceBack(q, object) == [q EXCEPT ![Len(q)] = Append(q[Len(q)], object)]

\* mutant: the oldest generation is rotated to the back without being cleared
RotateNoClear(q) == Append(Tail(q), q[1])

\* mutant: the cleared generation is popped without being put at the back
ClearAndPop(q) == Tail(q)

\* _disposal_queue.front().clear();
\* _disposal_queue.emplace_back(std::move(_disposal_queue.front()));
\* _disposal_queue.pop_front();
ClearAndRotate(q) ==
    LET cleared == [q EXCEPT ![1] = <<>>]
    IN  Append(Tail(cleared), cleared[1])

\* the references dropped by an advance of ring q into q2: those q holds and q2
\* holds no longer, counted with multiplicity
Dropped(q, q2, o) == Occurrences(Flatten(q), o) - Occurrences(Flatten(q2), o)

\* mutant: the test for a null object is missing
disposeNoNullCheck(object) ==
    /\ IF disposer
       THEN /\ disposerGot' = disposerGot \cup {object}
            /\ UNCHANGED <<disposal_queue, updatesSeen>>
       ELSE /\ disposal_queue' = EmplaceBack(disposal_queue, object)
            /\ updatesSeen' = [o \in Objects |-> IF o = object THEN 0 ELSE updatesSeen[o]]
            /\ UNCHANGED disposerGot
    /\ nextObj' = IF object = NullObject THEN nextObj ELSE object
    /\ updateRet' = "none"
    /\ UNCHANGED <<viewerValid, disposer, releaseCount, heldOver>>

\* VSGContextImpl::dispose(object)
dispose(object) ==
    /\ IF object = NullObject
       THEN UNCHANGED <<disposal_queue, disposerGot, updatesSeen>>
       ELSE IF disposer
            THEN /\ disposerGot' = disposerGot \cup {object}
                 /\ UNCHANGED <<disposal_queue, updatesSeen>>
            ELSE /\ disposal_queue' = EmplaceBack(disposal_queue, object)
                 /\ updatesSeen' = [updatesSeen EXCEPT ![object] = 0]
                 /\ UNCHANGED disposerGot
    /\ nextObj' = IF object = NullObject THEN nextObj ELSE object
    /\ updateRet' = "none"
    /\ UNCHANGED <<viewerValid, disposer, releaseCount, heldOver>>

\* a caller disposes a null reference or a reference not seen before
Dispose ==
    \E object \in {NullObject} \cup { o \in Objects : o = nextObj + 1 } :
        dispose(object)

\* mutant: the ring advances whether or not the viewer is valid
updateNoViewerCheck ==
    /\ disposal_queue' = ClearAndRotate(disposal_queue)
    /\ releaseCount' = [o \in Objects |->
           releaseCount[o] + Dropped(disposal_queue, disposal_queue', o)]
    /\ updatesSeen' = [o \in Objects |->
           IF InRing(o) /\ updatesSeen[o] <= DisposalGenerations
           THEN updatesSeen[o] + 1 ELSE updatesSeen[o]]
    /\ updateRet' \in {"false", "true"}
    /\ UNCHANGED <<viewerValid, disposer, disposerGot, nextObj, heldOver>>

\* VSGContextImpl::update(), the deferred unref block; the compile results are
\* not part of this model, so with a valid viewer updates_occurred is either
\* value; activeViewIDs is not part of this model
update ==
    IF ~viewerValid
    THEN \* ROCKY_SOFT_ASSERT_AND_RETURN(viewer.valid(), false, ...)
         /\ updateRet' = "false"
         /\ heldOver' = heldOver \cup { o \in Objects : InRing(o) }
         /\ UNCHANGED <<disposal_queue, viewerValid, disposer, disposerGot,
                        nextObj, releaseCount, updatesSeen>>
    ELSE /\ disposal_queue' = ClearAndRotate(disposal_queue)
         /\ releaseCount' = [o \in Objects |->
                releaseCount[o] + Dropped(disposal_queue, disposal_queue', o)]
         /\ updatesSeen' = [o \in Objects |->
                IF InRing(o) /\ updatesSeen[o] <= DisposalGenerations
                THEN updatesSeen[o] + 1 ELSE updatesSeen[o]]
         /\ updateRet' \in {"false", "true"}
         /\ UNCHANGED <<viewerValid, disposer, disposerGot, nextObj, heldOver>>

\* the public member VSGContextImpl::viewer is assigned or reset by the application
SetViewer ==
    /\ viewerValid' \in BOOLEAN \ {viewerValid}
    /\ updateRet' = "none"
    /\ UNCHANGED <<disposal_queue, disposer, disposerGot, nextObj,
                   releaseCount, updatesSeen, heldOver>>

\* the public member VSGContextImpl::disposer is installed or removed
SetDisposer ==
    /\ disposer' \in BOOLEAN \ {disposer}
    /\ updateRet' = "none"
    /\ UNCHANGED <<disposal_queue, viewerValid, disposerGot, nextObj,
                   releaseCount, updatesSeen, heldOver>>

(***************************************************************************)
(* SentryTracker<T>.                                                       *)
(***************************************************************************)
Keys == 1..MaxKeys
TokenIds == 1..MaxEntries
\* list nodes: the sentry marker and up to MaxEntries entries
Nodes == 0..MaxEntries
NoNode == -1

\* the tokens currently allocated
LiveTokens == { t \in TokenIds : heap[t] # NoNode }

\* the non-sentry entries of a list, as the set of their tokens
EntryTokens(l) == { l[i].token : i \in 1..Len(l) } \ {NullToken}

\* position of the node in the list (0 when absent)
IndexOf(l, node) ==
    IF \E i \in 1..Len(l) : l[i].node = node
    THEN CHOOSE i \in 1..Len(l) : l[i].node = node
    ELSE 0

\* the list without the element at position i
Without(l, i) == SubSeq(l, 1, i - 1) \o SubSeq(l, i + 1, Len(l))

\* what an operation other than flush() records (of a flush(): its arguments,
\* the tokens tracked before it, those touched and created since the flush()
\* before, the tokens of the entries it visited, in order, of those it erased
\* and of those its callback returned true for)
OpRecord(kind, ret) ==
    [kind |-> kind, ret |-> ret, maxCount |-> 0, nullDispose |-> FALSE,
     acceptAll |-> FALSE, before |-> {}, touched |-> {}, created |-> {},
     visited |-> <<>>, removed |-> {}, accepted |-> {}]

\* the operation was a flush() with an accept-all callback and a maxCount of
\* at least the number of entries
FullFlush(op) ==
    /\ op.kind = "flush" /\ ~op.nullDispose /\ op.acceptAll
    /\ op.maxCount >= Cardinality(op.before)

\* mutant: the element is moved to the back of the list
SpliceToBack(l, node) ==
    LET i == IndexOf(l, node) IN Without(l, i) \o <<l[i]>>

\* _list.splice(_list.begin(), _list, it): the element moves to the front
SpliceToFront(l, node) ==
    LET i == IndexOf(l, node) IN <<l[i]>> \o Without(l, i)

\* SentryTracker(): reset() on the empty list
\* reset(): every token is deleted, the list is cleared and holds a new sentry
TrackerStart ==
    /\ list = << [node |-> 0, data |-> NullData, token |-> NullToken] >>
    /\ sentryptr = 0
    /\ heap = [t \in TokenIds |-> NoNode]
    /\ touched = {}
    /\ created = {}
    /\ lastOp = OpRecord("reset", NullToken)
    /\ prevFull = FALSE
    /\ recency = <<>>

\* mutant: the tokens are not deleted before the list is cleared
resetLeak ==
    /\ list' = << [node |-> 0, data |-> NullData, token |-> NullToken] >>
    /\ sentryptr' = list'[1].node
    /\ heap' = heap
    /\ touched' = {}
    /\ created' = {}
    /\ lastOp' = OpRecord("reset", NullToken)
    /\ prevFull' = FALSE
    /\ recency' = <<>>

reset ==
    /\ list' = << [node |-> 0, data |-> NullData, token |-> NullToken] >>
    /\ sentryptr' = list'[1].node
    /\ heap' = [t \in TokenIds |-> NoNode]
    /\ touched' = {}
    /\ created' = {}
    /\ lastOp' = OpRecord("reset", NullToken)
    /\ prevFull' = FALSE
    /\ recency' = <<>>

\* the tracker has not been destroyed
Alive == lastOp.kind # "dtor"

\* ~SentryTracker(): every token is deleted; the list goes with the object
destroy ==
    /\ Alive
    /\ list' = <<>>
    /\ sentryptr' = NoNode
    /\ heap' = [t \in TokenIds |-> NoNode]
    /\ touched' = {}
    /\ created' = {}
    /\ lastOp' = OpRecord("dtor", NullToken)
    /\ prevFull' = FALSE
    /\ recency' = <<>>

\* the order in which the tracked tokens were last passed to or returned by
\* use(), latest first, after use() has touched token
MostRecent(order, token) ==
    LET Other(t) == t # token IN <<token>> \o SelectSeq(order, Other)

\* SentryTracker::use(data, token); a non-null token is one use() returned and
\* no flush() or reset() has deleted since (the caller's obligation)
use(data, token) ==
    /\ IF token # NullToken
       THEN /\ list' = SpliceToFront(list, heap[token])
            /\ heap' = [heap EXCEPT ![token] = list'[1].node]
            /\ touched' = touched \cup {token}
            /\ created' = created
            /\ lastOp' = OpRecord("use", token)
       ELSE LET ptr  == CHOOSE t \in TokenIds : heap[t] = NoNode
                node == CHOOSE n \in Nodes : \A i \in 1..Len(list) : list[i].node # n
            IN  /\ list' = << [node |-> node, data |-> data, token |-> ptr] >> \o list
                /\ heap' = [heap EXCEPT ![ptr] = list'[1].node]
                /\ touched' = touched \cup {ptr}
                /\ created' = created \cup {ptr}
                /\ lastOp' = OpRecord("use", ptr)
    /\ prevFull' = FALSE
    /\ recency' = MostRecent(recency, lastOp'.ret)
    /\ UNCHANGED sentryptr

\* a caller touches a new key, or an entry it holds the token of (with that
\* entry's data)
Use ==
    \/ \E data \in Keys :
          /\ Cardinality(LiveTokens) < MaxEntries
          /\ use(data, NullToken)
    \/ \E i \in 1..Len(list) :
          /\ list[i].token # NullToken
          /\ use(list[i].data, list[i].token)

\* mutant: the scan starts at the beginning of the list
ScanFromBegin(l, sentry) ==
    LET i == IndexOf(l, sentry) IN Without(l, i)

\* mutant: the loop walks from the end of the list towards the sentry
StaleRegionReversed(l, sentry) ==
    LET n == Len(l) - IndexOf(l, sentry)
    IN  [i \in 1..n |-> l[Len(l) + 1 - i]]

\* ListIterator i = _sentryptr; ++i; ... : the entries the loop may visit
StaleRegion(l, sentry) == SubSeq(l, IndexOf(l, sentry) + 1, Len(l))

\* the entries flush() does not look at: those ahead of the sentry
FrontRegion(l, sentry) == SubSeq(l, 1, IndexOf(l, sentry) - 1)

\* mutant: what the callback returns is ignored
DisposedAlways(le, nullDispose, accept) == TRUE

\* mutant: without a callback nothing is disposed
DisposedNullKeeps(le, nullDispose, accept) == le.data \in accept

\* disposed = true; if (dispose != nullptr) disposed = dispose(le._data);
\* a callback is modelled by the set of data values it returns true for
Disposed(le, nullDispose, accept) == nullDispose \/ le.data \in accept

\* mutant: the iterator is not backed up before the erase, so the entry after an
\* erased one is skipped
RECURSIVE ScanNoBackup(_, _, _, _, _)
ScanNoBackup(rest, count, maxCount, nullDispose, accept) ==
    IF rest = <<>> \/ count >= maxCount
    THEN [kept |-> rest, visited |-> <<>>, removed |-> <<>>]
    ELSE LET le == Head(rest)
         IN  IF Disposed(le, nullDispose, accept)
             THEN LET after == Tail(rest)
                      skipped == IF after = <<>> THEN <<>> ELSE <<Head(after)>>
                      r == ScanNoBackup(IF after = <<>> THEN <<>> ELSE Tail(after),
                                        count + 1, maxCount, nullDispose, accept)
                  IN  [kept |-> skipped \o r.kept, visited |-> <<le.token>> \o r.visited,
                       removed |-> <<le.token>> \o r.removed]
             ELSE LET r == ScanNoBackup(Tail(rest), count, maxCount, nullDispose, accept)
                  IN  [kept |-> <<le>> \o r.kept, visited |-> <<le.token>> \o r.visited,
                       removed |-> r.removed]

\* mutant: the loop runs while count <= maxCount
RECURSIVE ScanOffByOne(_, _, _, _, _)
ScanOffByOne(rest, count, maxCount, nullDispose, accept) ==
    IF rest = <<>> \/ count > maxCount
    THEN [kept |-> rest, visited |-> <<>>, removed |-> <<>>]
    ELSE LET le == Head(rest)
         IN  IF Disposed(le, nullDispose, accept)
             THEN LET r == ScanOffByOne(Tail(rest), count + 1, maxCount, nullDispose, accept)
                  IN  [kept |-> r.kept, visited |-> <<le.token>> \o r.visited,
                       removed |-> <<le.token>> \o r.removed]
             ELSE LET r == ScanOffByOne(Tail(rest), count, maxCount, nullDispose, accept)
                  IN  [kept |-> <<le>> \o r.kept, visited |-> <<le.token>> \o r.visited,
                       removed |-> r.removed]

\* for (++i; i != _list.end() && count < maxCount; ++i) { ... }: the loop of
\* flush() over the entries behind the sentry; the result holds the entries left
\* in place, the tokens of the entries visited and of those erased, in visit order
RECURSIVE Scan(_, _, _, _, _)
Scan(rest, count, maxCount, nullDispose, accept) ==
    IF rest = <<>> \/ count >= maxCount
    THEN [kept |-> rest, visited |-> <<>>, removed |-> <<>>]
    ELSE LET le == Head(rest)
         IN  IF Disposed(le, nullDispose, accept)
             THEN LET r == Scan(Tail(rest), count + 1, maxCount, nullDispose, accept)
                  IN  [kept |-> r.kept, visited |-> <<le.token>> \o r.visited,
                       removed |-> <<le.token>> \o r.removed]
             ELSE LET r == Scan(Tail(rest), count, maxCount, nullDispose, accept)
                  IN  [kept |-> <<le>> \o r.kept, visited |-> <<le.token>> \o r.visited,
                       removed |-> r.removed]

\* mutant: the sentry is left where it is
SentryStays(l, sentry) == l

\* mutant: the sentry is spliced to the end of the list
ResetSentryToBack(l, sentry) == SpliceToBack(l, sentry)

\* _list.splice(_list.begin(), _list, _sentryptr)
ResetSentry(l, sentry) == SpliceToFront(l, sentry)

\* SentryTracker::flush(maxCount, dispose)
flush(maxCount, nullDispose, accept) ==
    LET r == Scan(StaleRegion(list, sentryptr), 0, maxCount, nullDispose, accept)
        erased == FrontRegion(list, sentryptr)
                  \o << list[IndexOf(list, sentryptr)] >> \o r.kept
    IN  /\ list' = ResetSentry(erased, sentryptr)
        /\ sentryptr' = list'[1].node
        /\ heap' = [t \in TokenIds |->
                       IF t \in Range(r.removed) THEN NoNode ELSE heap[t]]
        /\ touched' = {}
        /\ created' = {}
        /\ lastOp' = [kind |-> "flush", ret |-> NullToken, maxCount |-> maxCount,
                      nullDispose |-> nullDispose,
                      acceptAll |-> (~nullDispose /\ accept = Keys),
                      before |-> EntryTokens(list),
                      touched |-> touched, created |-> created,
                      visited |-> r.visited, removed |-> Range(r.removed),
                      accepted |-> { le.token : le \in
                                       { x \in Range(list) :
                                           /\ x.token \in Range(r.visited)
                                           /\ ~nullDispose
                                           /\ x.data \in accept } }]
        /\ prevFull' = (FullFlush(lastOp) /\ lastOp.maxCount > Cardinality(lastOp.before))
        /\ recency' = LET Kept(t) == t \notin Range(r.removed)
                      IN  SelectSeq(recency, Kept)

\* the data values of the entries behind the sentry
StaleData == { le.data : le \in Range(StaleRegion(list, sentryptr)) }

\* a caller flushes; what a callback answers for values it is not asked about
\* makes no difference, so a callback is the accept-all one or accepts only
\* values found behind the sentry
Flush ==
    \E maxCount \in 0..(MaxEntries + 1), nullDispose \in BOOLEAN, accept \in SUBSET Keys :
        /\ nullDispose => accept = {}
        /\ accept = Keys \/ accept \subseteq StaleData
        /\ flush(maxCount, nullDispose, accept)

(***************************************************************************)
(* PriorityUpdateQueue and VSGContextImpl::onNextUpdate.                   *)
(***************************************************************************)
TaskIds == 1..MaxTasks
\* the threads that call onNextUpdate(function, get_priority)
Producers == {"p1", "p2"}
\* the thread that calls PriorityUpdateQueue::run()
UpdateThread == "update"
NoThread == "none"
\* the values a get_priority function returns
Priorities == {1, 5}
\* a Task whose get_priority is nullptr
NoPriority == 0

\* a task that does not exist yet, or was executed or discarded
DeadTask(state) == [state |-> state, prio |-> NoPriority, probe |-> "none"]

\* PriorityUpdateQueue::create() in ctor
QueueStart ==
    /\ queue = <<>>
    /\ tasks = [t \in TaskIds |-> DeadTask("new")]
    /\ nextTask = 0
    /\ mutex = NoThread
    /\ pcRun = "idle"
    /\ task = NoTask
    /\ pcProd = [p \in Producers |-> "idle"]
    /\ argProd = [p \in Producers |-> NoTask]
    /\ refCount = 1
    /\ opsAdded = 0
    /\ execCount = [t \in TaskIds |-> 0]
    /\ ranThisTick = 0
    /\ tickDiscarded = 0
    /\ epoch = [ok |-> TRUE, start |-> {}, runs |-> 0, changed |-> NoTask]

\* lhs.get_priority == nullptr / rhs.get_priority == nullptr
HasPriority(t) == tasks[t].prio # NoPriority

\* po != nullptr && po->canceled()
IsCanceled(t) == tasks[t].probe = "canceled"

\* mutant: the comparator orders from high to low priority
LessDescending(lhs, rhs) ==
    IF ~HasPriority(lhs) THEN FALSE
    ELSE IF ~HasPriority(rhs) THEN TRUE
    ELSE tasks[lhs].prio > tasks[rhs].prio

\* mutant: a task without get_priority compares below every other
LessNullLowest(lhs, rhs) ==
    IF ~HasPriority(rhs) THEN FALSE
    ELSE IF ~HasPriority(lhs) THEN TRUE
    ELSE tasks[lhs].prio < tasks[rhs].prio

\* the comparator handed to std::sort
Less(lhs, rhs) ==
    IF ~HasPriority(lhs) THEN FALSE
    ELSE IF ~HasPriority(rhs) THEN TRUE
    ELSE tasks[lhs].prio < tasks[rhs].prio

\* the orders of the elements of q
Orders(q) ==
    { s \in [1..Len(q) -> Range(q)] : \A i, j \in 1..Len(q) : i # j => s[i] # s[j] }

\* std::sort(_queue.begin(), _queue.end(), comparator): any order of the queue in
\* which no element is less than one before it (the order of equivalent
\* elements is unspecified)
SortedOrders(q) ==
    { s \in Orders(q) :
        \A i, j \in 1..Len(q) : i < j => ~Less(s[j], s[i]) }

\* mutant: the task is read from the back of the queue and left there
RECURSIVE PopLoopNoPop(_)
PopLoopNoPop(q) ==
    IF q = <<>>
    THEN [queue |-> q, task |-> NoTask, discarded |-> {}]
    ELSE LET back == q[Len(q)]
             rest == SubSeq(q, 1, Len(q) - 1)
         IN  IF ~IsCanceled(back)
             THEN [queue |-> q, task |-> back, discarded |-> {}]
             ELSE LET r == PopLoopNoPop(rest)
                  IN  [r EXCEPT !.discarded = r.discarded \cup {back}]

\* mutant: the task popped off the back is taken whatever its probe reports
PopLoopNoCancelCheck(q) ==
    IF q = <<>>
    THEN [queue |-> q, task |-> NoTask, discarded |-> {}]
    ELSE [queue |-> SubSeq(q, 1, Len(q) - 1), task |-> q[Len(q)], discarded |-> {}]

\* mutant: a canceled task is popped but task is not reset to { }, so the last
\* one popped is left in task when the list runs empty
RECURSIVE PopLoopKeepsLast(_)
PopLoopKeepsLast(q) ==
    IF q = <<>>
    THEN [queue |-> q, task |-> NoTask, discarded |-> {}]
    ELSE LET back == q[Len(q)]
             rest == SubSeq(q, 1, Len(q) - 1)
         IN  IF ~IsCanceled(back)
             THEN [queue |-> rest, task |-> back, discarded |-> {}]
             ELSE LET r == PopLoopKeepsLast(rest)
                  IN  IF r.task = NoTask
                      THEN [r EXCEPT !.task = back]
                      ELSE [r EXCEPT !.discarded = r.discarded \cup {back}]

\* mutant: every canceled task is taken out of the list, also those below the
\* task selected
RECURSIVE PopLoopPurge(_)
PopLoopPurge(q) ==
    IF q = <<>>
    THEN [queue |-> q, task |-> NoTask, discarded |-> {}]
    ELSE LET back == q[Len(q)]
             rest == SubSeq(q, 1, Len(q) - 1)
             NotCanceled(t) == ~IsCanceled(t)
         IN  IF ~IsCanceled(back)
             THEN [queue |-> SelectSeq(rest, NotCanceled), task |-> back,
                   discarded |-> { t \in Range(rest) : IsCanceled(t) }]
             ELSE LET r == PopLoopPurge(rest)
                  IN  [r EXCEPT !.discarded = r.discarded \cup {back}]

\* while (!_queue.empty()) { task = _queue.back(); _queue.pop_back(); ... }
RECURSIVE PopLoop(_)
PopLoop(q) ==
    IF q = <<>>
    THEN [queue |-> q, task |-> NoTask, discarded |-> {}]
    ELSE LET back == q[Len(q)]
             rest == SubSeq(q, 1, Len(q) - 1)
         IN  IF ~IsCanceled(back)
             THEN [queue |-> rest, task |-> back, discarded |-> {}]
             ELSE LET r == PopLoop(rest)
                  IN  [r EXCEPT !.discarded = r.discarded \cup {back}]

\* the epoch that starts when an enqueue, a cancellation or a priority change
\* ends with pending list q, task attributes ts and thread positions pr, pp; it
\* is ok when no run() or onNextUpdate() is under way and no pending task is
\* canceled
NoEpoch == [ok |-> FALSE, start |-> {}, runs |-> 0, changed |-> NoTask]

\* changed is the task whose priority change started the epoch, if one did
NewEpoch(q, ts, pr, pp, changed) ==
    IF /\ pr = "idle"
       /\ \A p \in Producers : pp[p] = "idle"
       /\ \A i \in 1..Len(q) : ts[q[i]].probe # "canceled"
    THEN [ok |-> TRUE, start |-> Range(q), runs |-> 0, changed |-> changed]
    ELSE NoEpoch

\* a run() invocation that returns (counted up to one more than the number of
\* tasks the epoch started with)
EpochAfterRun(e) ==
    IF e.ok /\ e.runs <= Cardinality(e.start)
    THEN [e EXCEPT !.runs = e.runs + 1]
    ELSE e

\* onNextUpdate: ROCKY_SOFT_ASSERT_AND_RETURN(viewer.valid(), void())
OnNextUpdateNoViewer(p) ==
    /\ pcProd[p] = "idle"
    /\ ~viewerValid
    /\ UNCHANGED <<ringVars, queueVars, bingVars>>

\* onNextUpdate(function, get_priority) up to std::scoped_lock lock(pq->_mutex);
\* function is a new Operation, prio what get_priority returns now (NoPriority
\* for a null get_priority), probe the Cancelable interface of function
OnNextUpdateLock(p, prio, probe) ==
    /\ pcProd[p] = "idle"
    /\ viewerValid
    /\ nextTask < MaxTasks
    /\ mutex = NoThread
    /\ mutex' = p
    /\ nextTask' = nextTask + 1
    /\ tasks' = [tasks EXCEPT ![nextTask + 1] =
                    [state |-> "made", prio |-> prio, probe |-> probe]]
    /\ pcProd' = [pcProd EXCEPT ![p] = "locked"]
    /\ argProd' = [argProd EXCEPT ![p] = nextTask + 1]
    /\ epoch' = NoEpoch
    /\ UNCHANGED <<queue, pcRun, task, refCount, opsAdded, execCount,
                   ranThisTick, tickDiscarded>>
    /\ UNCHANGED ringVars

\* mutant: the push_back is in the else branch of the referenceCount() test
OnNextUpdatePushElse(p) ==
    /\ pcProd[p] = "locked"
    /\ IF refCount = 1
       THEN refCount' = refCount + 1 /\ opsAdded' = opsAdded + 1 /\ queue' = queue
       ELSE queue' = Append(queue, argProd[p]) /\ UNCHANGED <<refCount, opsAdded>>
    /\ tasks' = [tasks EXCEPT ![argProd[p]].state = "pending"]
    /\ mutex' = NoThread
    /\ pcProd' = [pcProd EXCEPT ![p] = "idle"]
    /\ argProd' = [argProd EXCEPT ![p] = NoTask]
    /\ epoch' = NoEpoch
    /\ UNCHANGED <<nextTask, pcRun, task, execCount, ranThisTick, tickDiscarded>>
    /\ UNCHANGED ringVars

\* mutant: the queue is added to the update operations on every call
OnNextUpdatePushAdds(p) ==
    /\ pcProd[p] = "locked"
    /\ refCount' = IF refCount = 1 THEN refCount + 1 ELSE refCount
    /\ opsAdded' = IF opsAdded < MaxTasks THEN opsAdded + 1 ELSE opsAdded
    /\ queue' = Append(queue, argProd[p])
    /\ tasks' = [tasks EXCEPT ![argProd[p]].state = "pending"]
    /\ mutex' = NoThread
    /\ pcProd' = [pcProd EXCEPT ![p] = "idle"]
    /\ argProd' = [argProd EXCEPT ![p] = NoTask]
    /\ epoch' = NoEpoch
    /\ UNCHANGED <<nextTask, pcRun, task, execCount, ranThisTick, tickDiscarded>>
    /\ UNCHANGED ringVars

\* onNextUpdate inside the lock: the queue is added to the viewer's update
\* operations when nothing else references it, and the task is pushed back
OnNextUpdatePush(p) ==
    /\ pcProd[p] = "locked"
    /\ IF refCount = 1
       THEN refCount' = refCount + 1 /\ opsAdded' = opsAdded + 1
       ELSE UNCHANGED <<refCount, opsAdded>>
    /\ queue' = Append(queue, argProd[p])
    /\ tasks' = [tasks EXCEPT ![argProd[p]].state = "pending"]
    /\ mutex' = NoThread
    /\ pcProd' = [pcProd EXCEPT ![p] = "idle"]
    /\ argProd' = [argProd EXCEPT ![p] = NoTask]
    /\ epoch' = NewEpoch(queue', tasks', pcRun, pcProd', NoTask)
    /\ UNCHANGED <<nextTask, pcRun, task, execCount, ranThisTick, tickDiscarded>>
    /\ UNCHANGED ringVars

\* if (!_queue.empty()), read without the mutex: while a producer is inside its
\* push_back the read races with it and may see either answer
RunCheck ==
    /\ pcRun = "idle"
    /\ opsAdded > 0
    /\ \E empty \in BOOLEAN :
          /\ (\A p \in Producers : pcProd[p] = "idle") => (empty <=> queue = <<>>)
          /\ IF empty
             THEN /\ pcRun' = "idle"
                  /\ epoch' = EpochAfterRun(epoch)
             ELSE /\ pcRun' = "wait"
                  /\ epoch' = epoch
    /\ ranThisTick' = 0
    /\ tickDiscarded' = 0
    /\ UNCHANGED <<queue, tasks, nextTask, mutex, task, pcProd, argProd,
                   refCount, opsAdded, execCount>>
    /\ UNCHANGED ringVars

\* std::scoped_lock lock(_mutex) in run()
RunLock ==
    /\ pcRun = "wait"
    /\ mutex = NoThread
    /\ mutex' = UpdateThread
    /\ pcRun' = "locked"
    /\ UNCHANGED <<queue, tasks, nextTask, task, pcProd, argProd, refCount,
                   opsAdded, execCount, ranThisTick, tickDiscarded, epoch>>
    /\ UNCHANGED ringVars

\* std::sort calls the comparator on pairs of elements of q, and the comparator
\* calls lhs.get_priority() and rhs.get_priority() when both are set: elements
\* that end up next to each other are compared with each other, and those with
\* get_priority set end up in one block
SortCallsPriority(q) ==
    \E i, j \in 1..Len(q) : i # j /\ HasPriority(q[i]) /\ HasPriority(q[j])

\* mutant: the lock is not released at the end of the scope
RunLockedHoldsLock ==
    /\ pcRun = "locked"
    /\ mutex = UpdateThread
    /\ \E sorted \in SortedOrders(queue) :
          LET r == PopLoop(sorted)
          IN  /\ queue' = r.queue
              /\ task' = r.task
              /\ tasks' = [t \in TaskIds |->
                             IF t \in r.discarded THEN DeadTask("discarded")
                             ELSE IF t = r.task THEN [tasks[t] EXCEPT !.state = "popped"]
                             ELSE tasks[t]]
              /\ tickDiscarded' = Cardinality(r.discarded)
    /\ pcRun' = "exec"
    /\ UNCHANGED <<nextTask, mutex, pcProd, argProd, refCount, opsAdded,
                   execCount, ranThisTick, epoch>>
    /\ UNCHANGED ringVars

\* the rest of the lock scope of run(): sort from low to high priority, then
\* pop tasks off the back until one is not canceled; the lock is released at
\* the end of the scope
RunLocked ==
    /\ pcRun = "locked"
    /\ mutex = UpdateThread
    /\ mutex' = NoThread
    /\ \E sorted \in SortedOrders(queue) :
          LET r == PopLoop(sorted)
          IN  /\ queue' = r.queue
              /\ task' = r.task
              /\ tasks' = [t \in TaskIds |->
                             IF t \in r.discarded THEN DeadTask("discarded")
                             ELSE IF t = r.task THEN [tasks[t] EXCEPT !.state = "popped"]
                             ELSE tasks[t]]
              /\ tickDiscarded' = Cardinality(r.discarded)
    /\ pcRun' = "exec"
    /\ UNCHANGED <<nextTask, pcProd, argProd, refCount, opsAdded,
                   execCount, ranThisTick, epoch>>
    /\ UNCHANGED ringVars

\* mutant: after running a task, run() goes back for the next one
RunExecuteDrain ==
    /\ pcRun = "exec"
    /\ IF task # NoTask
       THEN /\ execCount' = [execCount EXCEPT ![task] = IF @ < 2 THEN @ + 1 ELSE @]
            /\ ranThisTick' = IF ranThisTick < 2 THEN ranThisTick + 1 ELSE ranThisTick
            /\ tasks' = [tasks EXCEPT ![task] = DeadTask("executed")]
       ELSE UNCHANGED <<execCount, ranThisTick, tasks>>
    /\ task' = NoTask
    /\ pcRun' = IF queue # <<>> THEN "wait" ELSE "idle"
    /\ epoch' = EpochAfterRun(epoch)
    /\ UNCHANGED <<queue, nextTask, mutex, pcProd, argProd, refCount, opsAdded,
                   tickDiscarded>>
    /\ UNCHANGED ringVars

\* if (task.function) task.function->run(); and the return of run(). The
\* function may itself call onNextUpdate(function, get_priority): the second
\* disjunct takes it up to std::scoped_lock lock(pq->_mutex)
RunExecute ==
    /\ pcRun = "exec"
    /\ \/ /\ IF task # NoTask
             THEN /\ execCount' = [execCount EXCEPT ![task] = IF @ < 2 THEN @ + 1 ELSE @]
                  /\ ranThisTick' = IF ranThisTick < 2 THEN ranThisTick + 1 ELSE ranThisTick
                  /\ tasks' = [tasks EXCEPT ![task] =
                                  IF task \in Range(queue) THEN @ ELSE DeadTask("executed")]
             ELSE UNCHANGED <<execCount, ranThisTick, tasks>>
          /\ epoch' = EpochAfterRun(epoch)
          /\ task' = NoTask
          /\ pcRun' = "idle"
          /\ UNCHANGED <<queue, nextTask, mutex>>
       \/ \E prio \in Priorities \cup {NoPriority}, probe \in {"none", "live"} :
             /\ task # NoTask
             /\ viewerValid
             /\ nextTask < MaxTasks
             /\ mutex = NoThread
             /\ mutex' = UpdateThread
             /\ nextTask' = nextTask + 1
             /\ tasks' = [tasks EXCEPT ![nextTask + 1] =
                             [state |-> "made", prio |-> prio, probe |-> probe]]
             /\ pcRun' = "reenter"
             /\ epoch' = NoEpoch
             /\ UNCHANGED <<queue, task, execCount, ranThisTick>>
    /\ UNCHANGED <<pcProd, argProd, refCount, opsAdded, tickDiscarded>>
    /\ UNCHANGED ringVars

\* the running action's onNextUpdate inside the lock: the new task (the one
\* created last) is pushed back and the lock released; then the action and
\* run() return
RunReenterPush ==
    /\ pcRun = "reenter"
    /\ IF refCount = 1
       THEN refCount' = refCount + 1 /\ opsAdded' = opsAdded + 1
       ELSE UNCHANGED <<refCount, opsAdded>>
    /\ queue' = Append(queue, nextTask)
    /\ mutex' = NoThread
    /\ execCount' = [execCount EXCEPT ![task] = IF @ < 2 THEN @ + 1 ELSE @]
    /\ ranThisTick' = IF ranThisTick < 2 THEN ranThisTick + 1 ELSE ranThisTick
    /\ tasks' = [tasks EXCEPT
                   ![task] = IF task \in Range(queue) THEN @ ELSE DeadTask("executed"),
                   ![nextTask].state = "pending"]
    /\ task' = NoTask
    /\ pcRun' = "idle"
    /\ epoch' = NewEpoch(queue', tasks', "idle", pcProd, NoTask)
    /\ UNCHANGED <<nextTask, pcProd, argProd, tickDiscarded>>
    /\ UNCHANGED ringVars

\* the owner of a pending task's Future abandons it: its probe reports canceled
CancelTask(t) ==
    /\ tasks[t].state \in {"made", "pending"}
    /\ tasks[t].probe = "live"
    /\ tasks' = [tasks EXCEPT ![t].probe = "canceled"]
    /\ epoch' = NewEpoch(queue, tasks', pcRun, pcProd, NoTask)
    /\ UNCHANGED <<queue, nextTask, mutex, pcRun, task, pcProd, argProd,
                   refCount, opsAdded, execCount, ranThisTick, tickDiscarded>>
    /\ UNCHANGED ringVars

\* what a pending task's get_priority returns changes
SetPriority(t, prio) ==
    /\ tasks[t].state = "pending"
    /\ HasPriority(t)
    /\ prio # tasks[t].prio
    /\ tasks' = [tasks EXCEPT ![t].prio = prio]
    /\ epoch' = NewEpoch(queue, tasks', pcRun, pcProd, t)
    /\ UNCHANGED <<queue, nextTask, mutex, pcRun, task, pcProd, argProd,
                   refCount, opsAdded, execCount, ranThisTick, tickDiscarded>>
    /\ UNCHANGED ringVars

(***************************************************************************)
(* BingImageLayer::createImageImplementation.                              *)
(***************************************************************************)
TileKeys == 1..MaxTileKeys
\* the threads that call createImageImplementation
BingThreads == {"w1", "w2"}
\* an empty optional
NoResult == "none"
\* a Result<URI>: a URI, or a failed status
Results == {"uri", "failed"}

\* openImplementation: _tileURICache = std::make_unique<TileURICache>()
BingStart ==
    /\ tileURICache = [k \in TileKeys |-> NoResult]
    /\ pcBing = [w \in BingThreads |-> "idle"]
    /\ keyBing = [w \in BingThreads |-> 1]
    /\ imageURI = [w \in BingThreads |-> NoResult]
    /\ fetchCount = [k \in TileKeys |-> 0]
    /\ putCount = [k \in TileKeys |-> 0]
    /\ observed = [k \in TileKeys |-> {}]
    /\ returned = [w \in BingThreads |-> "none"]
    /\ imageFailed = {}

\* TileURICache::get(key): the result stored for key, or an empty optional
CacheGet(cache, key) == cache[key]

\* TileURICache::put(key, value): value is stored for key
CachePut(cache, key, value) == [cache EXCEPT ![key] = value]

\* mutant: the lookup is skipped and the metadata is always fetched
BingGetMiss(w, key) ==
    /\ pcBing[w] = "idle"
    /\ keyBing' = [keyBing EXCEPT ![w] = key]
    /\ imageURI' = [imageURI EXCEPT ![w] = NoResult]
    /\ pcBing' = [pcBing EXCEPT ![w] = "fetch"]
    /\ UNCHANGED <<tileURICache, fetchCount, putCount, observed, returned, imageFailed>>

\* auto imageURI = _tileURICache->get(key); if (!imageURI.has_value()) ...
BingGet(w, key) ==
    /\ pcBing[w] = "idle"
    /\ keyBing' = [keyBing EXCEPT ![w] = key]
    /\ imageURI' = [imageURI EXCEPT ![w] = CacheGet(tileURICache, key)]
    /\ pcBing' = [pcBing EXCEPT ![w] =
                    IF CacheGet(tileURICache, key) = NoResult THEN "fetch" ELSE "use"]
    /\ UNCHANGED <<tileURICache, fetchCount, putCount, observed, returned, imageFailed>>

\* auto metaFetch = metadataURI.read(io); imageURI = the URI it names, or the
\* failed status
BingFetch(w, result) ==
    /\ pcBing[w] = "fetch"
    /\ fetchCount' = [fetchCount EXCEPT ![keyBing[w]] = @ + 1]
    /\ imageURI' = [imageURI EXCEPT ![w] = result]
    /\ pcBing' = [pcBing EXCEPT ![w] = "put"]
    /\ UNCHANGED <<tileURICache, keyBing, putCount, observed, returned, imageFailed>>

\* _tileURICache->put(key, imageURI)
BingPut(w) ==
    /\ pcBing[w] = "put"
    /\ tileURICache' = CachePut(tileURICache, keyBing[w], imageURI[w])
    /\ putCount' = [putCount EXCEPT ![keyBing[w]] = @ + 1]
    /\ pcBing' = [pcBing EXCEPT ![w] = "use"]
    /\ UNCHANGED <<keyBing, imageURI, fetchCount, observed, returned, imageFailed>>

\* if (imageURI->status.failed()) return imageURI->status; otherwise the image
\* is read from the URI and decoded, which succeeds or fails
BingReturn(w, imageOk) ==
    /\ pcBing[w] = "use"
    /\ observed' = [observed EXCEPT ![keyBing[w]] = @ \cup {imageURI[w]}]
    /\ returned' = [returned EXCEPT ![w] =
                      IF imageURI[w] = "failed" THEN "metadata failed"
                      ELSE IF imageOk THEN "image" ELSE "image failed"]
    /\ imageURI' = [imageURI EXCEPT ![w] = NoResult]
    /\ keyBing' = [keyBing EXCEPT ![w] = 1]
    /\ imageFailed' = IF imageURI[w] = "uri" /\ ~imageOk
                      THEN imageFailed \cup {keyBing[w]} ELSE imageFailed
    /\ pcBing' = [pcBing EXCEPT ![w] = "idle"]
    /\ UNCHANGED <<tileURICache, fetchCount, putCount>>

BingInit == RingStart /\ viewerValid /\ TrackerStart /\ QueueStart /\ BingStart

BingNext ==
    \/ \E w \in BingThreads, key \in TileKeys :
          BingGet(w, key) /\ UNCHANGED <<ringVars, trackerVars, queueVars>>
    \/ \E w \in BingThreads, result \in Results :
          BingFetch(w, result) /\ UNCHANGED <<ringVars, trackerVars, queueVars>>
    \/ \E w \in BingThreads :
          BingPut(w) /\ UNCHANGED <<ringVars, trackerVars, queueVars>>
    \/ \E w \in BingThreads, imageOk \in BOOLEAN :
          BingReturn(w, imageOk) /\ UNCHANGED <<ringVars, trackerVars, queueVars>>

SpecBing == BingInit /\ [][BingNext]_vars

(***************************************************************************)
(* Claims about BingImageLayer.                                            *)
(***************************************************************************)
\* C2: for every tile key, the calls of createImageImplementation for that key
\* invoke the metadata fetch once in total, all callers use the same result,
\* and the key's cache entry is written at most once.
C2_SingleFlight ==
    \A k \in TileKeys :
        /\ fetchCount[k] <= 1
        /\ putCount[k] <= 1
        /\ Cardinality(observed[k]) <= 1

C32_FailedImageKeepsURI ==
    \A k \in imageFailed : CacheGet(tileURICache, k) = "uri"

QueueInit == RingStart /\ TrackerStart /\ QueueStart /\ BingStart

QueueNext ==
    \/ \E p \in Producers : OnNextUpdateNoViewer(p) /\ UNCHANGED <<trackerVars, bingVars>>
    \/ \E p \in Producers, prio \in Priorities \cup {NoPriority}, probe \in {"none", "live"} :
          OnNextUpdateLock(p, prio, probe) /\ UNCHANGED <<trackerVars, bingVars>>
    \/ \E p \in Producers : OnNextUpdatePush(p) /\ UNCHANGED <<trackerVars, bingVars>>
    \/ RunCheck /\ UNCHANGED <<trackerVars, bingVars>>
    \/ RunLock /\ UNCHANGED <<trackerVars, bingVars>>
    \/ RunLocked /\ UNCHANGED <<trackerVars, bingVars>>
    \/ RunExecute /\ UNCHANGED <<trackerVars, bingVars>>
    \/ RunReenterPush /\ UNCHANGED <<trackerVars, bingVars>>
    \/ \E t \in TaskIds : CancelTask(t) /\ UNCHANGED <<trackerVars, bingVars>>
    \/ \E t \in TaskIds, prio \in Priorities : SetPriority(t, prio) /\ UNCHANGED <<trackerVars, bingVars>>

SpecQueue == QueueInit /\ [][QueueNext]_vars

(***************************************************************************)
(* Claims about PriorityUpdateQueue.                                       *)
(***************************************************************************)
\* the step of run() that sorts the pending list and selects a task
RunSelects == pcRun = "locked" /\ pcRun' = "exec"

\* a task that is pending and not reported canceled by its probe
Runnable(t) == t \in Range(queue) /\ ~IsCanceled(t)

\* C4: each invocation of run() executes the action of at most one task,
\* however many tasks are pending and however many canceled tasks it discards.
C4_AtMostOnePerRun == ranThisTick <= 1

\* C4 witness: a run() has discarded a canceled task, executed one action and
\* returned with tasks still pending.
C4_Witness ==
    /\ pcRun = "idle" /\ ranThisTick = 1 /\ tickDiscarded >= 1 /\ queue # <<>>

\* the pending list of the scenario, or what is left of it: n tasks, none
\* canceled, among them with priority 5, with priority 1, without priority
\* function as many as hi, lo, none say
ScenarioQueue(hi, lo, none) ==
    /\ Len(queue) = Cardinality(hi \cup lo \cup none)
    /\ Range(queue) = hi \cup lo \cup none
    /\ \A t \in Range(queue) : ~IsCanceled(t)
    /\ \A t \in hi : tasks[t].prio = 5
    /\ \A t \in lo : tasks[t].prio = 1
    /\ \A t \in none : ~HasPriority(t)

C6_GreatestCurrentPriority ==
    [][(RunSelects /\ task' # NoTask /\ HasPriority(task')) =>
        /\ Runnable(task')
        /\ \A t \in TaskIds :
              (Runnable(t) /\ HasPriority(t)) => tasks[t].prio <= tasks[task'].prio
    ]_vars

\* C6 witness: run() has selected a task whose priority was raised after it
\* was enqueued, ahead of a pending task of lower priority.
C6_Witness ==
    /\ pcRun = "exec" /\ task # NoTask /\ HasPriority(task)
    /\ epoch.ok /\ epoch.changed = task
    /\ \E t \in TaskIds :
          Runnable(t) /\ HasPriority(t) /\ tasks[t].prio < tasks[task].prio

\* C10: no task's action is run more than once; and when k tasks are pending,
\* none canceled, and nothing is enqueued or canceled, each of the next k run()
\* calls executes one of them, and after k calls all k have been executed
\* once and the pending list is empty.
C10_EachPendingTaskRunsOnce ==
    /\ \A t \in TaskIds : execCount[t] <= 1
    /\ (epoch.ok /\ pcRun = "idle") =>
          LET k == Cardinality(epoch.start)
              n == epoch.runs
              done == epoch.start \ Range(queue)
          IN  /\ Range(queue) \subseteq epoch.start
              /\ n <= k => (Cardinality(done) = n /\ Len(queue) = k - n)
              /\ n >= k => queue = <<>>
              /\ \A t \in done : execCount[t] = 1 /\ tasks[t].state = "executed"
              /\ \A t \in Range(queue) : execCount[t] = 0

\* C10 witness: three tasks were pending and three run() calls later each
\* has been executed once and the pending list is empty.
C10_Witness ==
    /\ epoch.ok /\ pcRun = "idle"
    /\ Cardinality(epoch.start) = 3 /\ epoch.runs = 3
    /\ queue = <<>>
    /\ \A t \in epoch.start : execCount[t] = 1

\* C11: a task whose probe reports canceled when run() pops it is taken out of
\* the pending list and discarded, and a discarded task stays discarded: its
\* action is not executed then or later. run() goes on popping in the same
\* invocation, so it ends up with a task that is not canceled, or with no task
\* and an empty list.
C11_CanceledNeverRuns ==
    /\ [](\A t \in TaskIds :
            tasks[t].state = "discarded" =>
                execCount[t] = 0 /\ t \notin Range(queue) /\ task # t)
    /\ [][\A t \in TaskIds :
            tasks[t].state = "discarded" => tasks'[t].state = "discarded"]_vars
    /\ [][RunSelects =>
            LET popped == Range(queue) \ Range(queue')
            IN  /\ \A t \in popped \ {task'} :
                      IsCanceled(t) /\ tasks'[t].state = "discarded"
                /\ task' # NoTask => (task' \in popped /\ ~IsCanceled(task'))
                /\ task' = NoTask => queue' = <<>>
       ]_vars

\* C11 witness: run() has discarded a canceled task and gone on to select
\* a task that is not canceled.
C11_Witness ==
    /\ pcRun = "exec" /\ tickDiscarded >= 1 /\ task # NoTask
    /\ \E t \in TaskIds : tasks[t].state = "discarded"

\* C13: while the update thread holds the mutex in run(), no action and no
\* priority function is invoked: the selected action runs after the lock
\* scope, and the sort inside the lock scope calls no get_priority.
C13_NoCallbackUnderLock ==
    [][/\ pcRun' = "exec" => mutex' # UpdateThread
       /\ RunSelects => ~(mutex = UpdateThread /\ SortCallsPriority(queue))
    ]_vars

\* C14: every task created by onNextUpdate is in the pending list exactly once
\* from its push_back until run() pops it, and not at all before or after; a
\* task not yet pushed is held by a producer, or by the running action, inside
\* the lock scope of onNextUpdate; a popped
\* task is the one run() holds; a task is executed at most once, and a
\* discarded task is never executed.
C14_EnqueuedExactlyOnce ==
    \A t \in TaskIds :
        /\ Occurrences(queue, t) = (IF tasks[t].state = "pending" THEN 1 ELSE 0)
        /\ (t > nextTask) <=> (tasks[t].state = "new")
        /\ tasks[t].state = "made" =>
                \/ \E p \in Producers : pcProd[p] = "locked" /\ argProd[p] = t
                \/ pcRun = "reenter" /\ t = nextTask
        /\ tasks[t].state = "popped" => (pcRun \in {"exec", "reenter"} /\ task = t)
        /\ execCount[t] <= 1
        /\ (tasks[t].state = "executed") <=> (execCount[t] = 1)
        /\ tasks[t].state = "discarded" => execCount[t] = 0

\* C14 witness: run() is executing a task it popped while another task is
\* pending and a producer is inside onNextUpdate with a third.
C14_Witness ==
    /\ pcRun = "exec" /\ task # NoTask /\ queue # <<>>
    /\ \E p \in Producers : pcProd[p] = "locked"

\* C15: every step of run() and onNextUpdate() that reads or writes the
\* pending list is taken by a thread that holds the mutex, and the update
\* thread does not look at the list while a producer is inside its lock scope.
C15_ListAccessUnderLock ==
    [][/\ RunCheck => (mutex = UpdateThread /\ \A p \in Producers : pcProd[p] # "locked")
       /\ RunLocked => mutex = UpdateThread
       /\ \A p \in Producers : OnNextUpdatePush(p) => mutex = p
    ]_vars

\* C24: a run() that finds the pending list empty goes no further; a run()
\* that finds only canceled tasks (or none) under the lock discards them all
\* and holds no task; a run() that holds no task returns having executed
\* nothing and leaves the list as it is.
C24_NothingRunnableIsNoOp ==
    [][/\ (/\ pcRun = "idle" /\ queue = <<>>
           /\ \A p \in Producers : pcProd[p] = "idle") =>
                (pcRun' = "idle" /\ execCount' = execCount /\ queue' = queue)
       /\ (RunSelects /\ \A t \in Range(queue) : IsCanceled(t)) =>
                /\ task' = NoTask
                /\ queue' = <<>>
                /\ execCount' = execCount
                /\ \A t \in Range(queue) : tasks'[t].state = "discarded"
       /\ (pcRun = "exec" /\ task = NoTask /\ pcRun' # "exec") =>
                /\ pcRun' = "idle"
                /\ execCount' = execCount
                /\ ranThisTick' = 0
                /\ queue' = queue
                /\ nextTask' = nextTask
    ]_vars

\* C24 witness: a run() that found only canceled tasks has discarded them
\* and returned without running an action, the pending list empty.
C24_Witness ==
    /\ pcRun = "idle" /\ ranThisTick = 0 /\ tickDiscarded >= 1
    /\ queue = <<>> /\ task = NoTask

\* a task has been pushed onto the pending list at some time
Pushed(t) == tasks[t].state \notin {"new", "made"}

\* C25: the queue is added to the viewer's update operations by the first
\* push and by no later one, and nothing takes it off again or drops the
\* reference the update operations hold, also when the pending list is empty.
C25_AttachedOnce ==
    /\ [](/\ opsAdded = (IF \E t \in TaskIds : Pushed(t) THEN 1 ELSE 0)
          /\ refCount = 1 + opsAdded)
    /\ [][opsAdded' >= opsAdded /\ refCount' >= refCount]_vars

\* C25 witness: after several enqueues and ticks the pending list is empty
\* again and the queue is still attached, having been added once.
C25_Witness ==
    /\ opsAdded = 1 /\ refCount = 2
    /\ queue = <<>> /\ pcRun = "idle"
    /\ Cardinality({ t \in TaskIds : tasks[t].state = "executed" }) >= 2

\* C28: run() has released the mutex when the action runs, so the action's
\* own onNextUpdate takes the lock; the task it enqueues is pending when
\* run() returns, and this run() has executed just the one action. A task is
\* executed only as the task a run() popped.
C28_ReentrantEnqueue ==
    /\ [](pcRun = "exec" => mutex # UpdateThread)
    /\ [][(pcRun = "reenter" /\ pcRun' # "reenter") =>
            /\ pcRun' = "idle"
            /\ mutex = UpdateThread /\ mutex' = NoThread
            /\ Occurrences(queue', nextTask) = 1
            /\ tasks'[nextTask].state = "pending"
            /\ execCount'[nextTask] = 0
            /\ execCount'[task] = 1
            /\ ranThisTick' = 1
       ]_vars
    /\ [][\A t \in TaskIds :
            execCount'[t] > execCount[t] => (task = t /\ tasks[t].state = "popped")]_vars

\* C28 witness: the running action is inside its own onNextUpdate call and
\* holds the mutex, with another task pending.
C28_Witness ==
    /\ pcRun = "reenter" /\ mutex = UpdateThread
    /\ task # NoTask /\ tasks[nextTask].state = "made"
    /\ queue # <<>>

\* C29: when run() selects a task, the tasks it discards are canceled and do
\* not rank below the selected one; every canceled task that ranks below the
\* selected one is still pending afterwards, unchanged; nothing left in the
\* list ranks above the selected task; and tasks are discarded by this step
\* of run() only.
C29_DiscardsOnlyAboveSelected ==
    /\ [][(RunSelects /\ task' # NoTask) =>
            LET gone == (Range(queue) \ Range(queue')) \ {task'}
            IN  /\ \A d \in gone : IsCanceled(d) /\ ~Less(d, task')
                /\ \A t \in Range(queue) :
                      (IsCanceled(t) /\ Less(t, task')) =>
                          (t \in Range(queue') /\ tasks'[t] = tasks[t])
                /\ \A t \in Range(queue') : ~Less(task', t)
       ]_vars
    /\ [][\A t \in TaskIds :
            (tasks[t].state # "discarded" /\ tasks'[t].state = "discarded")
                => RunSelects]_vars

\* C29 witness: run() has discarded a canceled task that ranked above the
\* task it selected and left a canceled task that ranks below it pending.
C29_Witness ==
    /\ pcRun = "exec" /\ task # NoTask /\ tickDiscarded >= 1
    /\ \E t \in Range(queue) : IsCanceled(t) /\ Less(t, task)

TrackerInit == RingStart /\ viewerValid /\ TrackerStart /\ QueueStart /\ BingStart

TrackerNext ==
    \/ Alive /\ Use /\ UNCHANGED <<ringVars, queueVars, bingVars>>
    \/ Alive /\ Flush /\ UNCHANGED <<ringVars, queueVars, bingVars>>
    \/ Alive /\ reset /\ UNCHANGED <<ringVars, queueVars, bingVars>>
    \/ destroy /\ UNCHANGED <<ringVars, queueVars, bingVars>>

SpecTracker == TrackerInit /\ [][TrackerNext]_vars

(***************************************************************************)
(* Claims about SentryTracker.                                             *)
(***************************************************************************)
\* C1: an entry touched by use() since the most recent flush() is neither
\* visited (so not passed to the dispose callback) nor removed by the next
\* flush(), whatever maxCount and callback that flush() is given.
C1_TouchedSurvivesFlush ==
    lastOp.kind = "flush" =>
        \A t \in lastOp.touched :
            /\ t \notin Range(lastOp.visited)
            /\ t \notin lastOp.removed
            /\ t \in EntryTokens(list)
            /\ heap[t] # NoNode

\* C1 witness: a flush() with a callback has removed an entry while an entry
\* touched before it is still tracked.
C1_Witness ==
    /\ lastOp.kind = "flush" /\ ~lastOp.nullDispose
    /\ lastOp.touched # {} /\ lastOp.removed # {}
    /\ lastOp.touched \subseteq EntryTokens(list)

\* the second of two flush() calls in succession, both with an accept-all
\* callback and maxCount above the number of entries, no use() in between
SecondFullFlush ==
    /\ prevFull /\ FullFlush(lastOp)
    /\ lastOp.maxCount > Cardinality(lastOp.before)

\* C7 as stated: the second of two such flush() calls removes no entry.
C7_SecondFlushRemovesNothing ==
    SecondFullFlush => lastOp.removed = {}

\* C7 as amended: the first call removes the stale set (the entries not
\* touched since the flush before it) and keeps the touched ones; the second
\* call removes every entry that survived the first, leaving only the sentry.
C7_SecondFlushRemovesSurvivors ==
    /\ (FullFlush(lastOp) /\ lastOp.maxCount > Cardinality(lastOp.before)) =>
            /\ lastOp.removed = lastOp.before \ lastOp.touched
            /\ EntryTokens(list) = lastOp.touched
    /\ SecondFullFlush =>
            /\ lastOp.touched = {}
            /\ lastOp.removed = lastOp.before
            /\ EntryTokens(list) = {}

\* C7 witness: the second of two such flush() calls has removed an entry.
C7_Witness ==
    SecondFullFlush /\ lastOp.removed # {}

\* C8: when every entry was present at the previous flush() and the set S of
\* entries was touched since, flush(maxCount >= number of entries, accept-all)
\* removes exactly the entries outside S and the tracker then holds exactly S.
C8_FlushRemovesExactlyUntouched ==
    (FullFlush(lastOp) /\ lastOp.created = {}) =>
        /\ lastOp.removed = lastOp.before \ lastOp.touched
        /\ EntryTokens(list) = lastOp.touched
        /\ LiveTokens = lastOp.touched

\* C8 witness: such a flush() has removed an untouched entry and kept a
\* touched one.
C8_Witness ==
    /\ FullFlush(lastOp) /\ lastOp.created = {}
    /\ lastOp.touched # {} /\ lastOp.removed # {}
    /\ EntryTokens(list) = lastOp.touched

\* the entries behind the sentry when the flush() that lastOp records began:
\* those not touched since the flush() or reset() before it
StaleBefore == lastOp.before \ lastOp.touched

\* C16: a flush(maxCount, dispose) removes at most maxCount entries, all of
\* them from behind the sentry; it stops at its maxCount-th removal or looks
\* at every stale entry; the entries it did not remove, those it did not reach
\* among them, are still tracked; with maxCount 0 it visits and removes
\* nothing.
C16_FlushRemovesAtMostMaxCount ==
    lastOp.kind = "flush" =>
        /\ Cardinality(lastOp.removed) <= lastOp.maxCount
        /\ lastOp.removed \subseteq Range(lastOp.visited)
        /\ Range(lastOp.visited) \subseteq StaleBefore
        /\ Cardinality(lastOp.removed) < lastOp.maxCount
                => Range(lastOp.visited) = StaleBefore
        /\ (Cardinality(lastOp.removed) = lastOp.maxCount /\ lastOp.visited # <<>>)
                => lastOp.visited[Len(lastOp.visited)] \in lastOp.removed
        /\ EntryTokens(list) = lastOp.before \ lastOp.removed
        /\ LiveTokens = lastOp.before \ lastOp.removed
        /\ lastOp.maxCount = 0 => (lastOp.visited = <<>> /\ lastOp.removed = {})

\* C16 witness: a flush() with maxCount 1 has removed one stale entry and
\* left a stale entry it did not reach in the tracker.
C16_Witness ==
    /\ lastOp.kind = "flush" /\ lastOp.maxCount = 1
    /\ Cardinality(lastOp.removed) = 1
    /\ (StaleBefore \ Range(lastOp.visited)) \cap EntryTokens(list) # {}

\* C17: the list holds exactly one sentry entry and _sentryptr designates it;
\* after a flush() and after a reset() the sentry is the first element.
C17_OneSentinel ==
    Alive =>
    /\ Cardinality({ i \in 1..Len(list) : list[i].token = NullToken }) = 1
    /\ IndexOf(list, sentryptr) # 0
    /\ list[IndexOf(list, sentryptr)].token = NullToken
    /\ list[IndexOf(list, sentryptr)].data = NullData
    /\ lastOp.kind \in {"flush", "reset"} => list[1].node = sentryptr

\* C17 witness: a flush() that began with touched entries ahead of the
\* sentry has ended with the sentry first and those entries behind it.
C17_Witness ==
    /\ lastOp.kind = "flush" /\ lastOp.touched # {}
    /\ list[1].node = sentryptr /\ list[1].token = NullToken
    /\ Len(list) >= 2

\* C18: the allocated tokens are exactly the tokens of the list's entries,
\* each in one entry only and designating that entry; a flush() frees the
\* tokens of the entries it removes and no other, and a reset() and the
\* destructor free all.
C18_TokensMatchEntries ==
    /\ LiveTokens = EntryTokens(list)
    /\ \A t \in LiveTokens :
          /\ Cardinality({ i \in 1..Len(list) : list[i].token = t }) = 1
          /\ IndexOf(list, heap[t]) # 0
          /\ list[IndexOf(list, heap[t])].token = t
    /\ lastOp.kind = "flush" =>
          /\ lastOp.removed \subseteq lastOp.before
          /\ LiveTokens = lastOp.before \ lastOp.removed
    /\ lastOp.kind \in {"reset", "dtor"} => LiveTokens = {}

\* C18 witness: a flush() has freed the token of an entry it removed while
\* the token of another entry is still allocated.
C18_Witness ==
    /\ lastOp.kind = "flush"
    /\ \E t \in lastOp.removed : heap[t] = NoNode
    /\ \E t \in lastOp.before : heap[t] # NoNode

\* C19: use(data, token) with a token moves that token's entry to the front
\* and returns the token; the other entries, the sentry among them, keep
\* their order and the tokens their entries. use(data, nullptr) puts one new
\* entry at the front of the unchanged list and returns a token that was not
\* allocated before.
C19_UseMovesToFront ==
    [][lastOp'.kind = "use" =>
        LET t == lastOp'.ret
        IN  /\ t # NullToken
            /\ list'[1].token = t
            /\ heap'[t] = list'[1].node
            /\ \A u \in TokenIds \ {t} : heap'[u] = heap[u]
            /\ sentryptr' = sentryptr
            /\ IF t \in LiveTokens
               THEN /\ Len(list') = Len(list)
                    /\ list'[1] = list[IndexOf(list, heap[t])]
                    /\ Tail(list') = Without(list, IndexOf(list, heap[t]))
               ELSE /\ t \notin EntryTokens(list)
                    /\ Len(list') = Len(list) + 1
                    /\ Tail(list') = list
    ]_vars

\* C19 witness: use() with the token of an entry that was behind the sentry
\* has moved it to the front, ahead of the sentry and of another entry.
C19_Witness ==
    /\ lastOp.kind = "use" /\ lastOp.ret \notin created
    /\ Len(list) = 3
    /\ list[1].token = lastOp.ret /\ list[2].token = NullToken

\* C20: a flush() without dispose callback removes every entry it visits:
\* the first maxCount entries behind the sentry, or all of them when there
\* are no more than maxCount.
C20_NullDisposeRemovesStale ==
    (lastOp.kind = "flush" /\ lastOp.nullDispose) =>
        /\ lastOp.removed = Range(lastOp.visited)
        /\ lastOp.removed \subseteq StaleBefore
        /\ Cardinality(lastOp.removed) =
                (IF lastOp.maxCount < Cardinality(StaleBefore)
                 THEN lastOp.maxCount ELSE Cardinality(StaleBefore))
        /\ EntryTokens(list) = lastOp.before \ lastOp.removed

\* C20 witness: a flush() without callback has removed both entries behind
\* the sentry.
C20_Witness ==
    /\ lastOp.kind = "flush" /\ lastOp.nullDispose
    /\ Cardinality(lastOp.removed) = 2 /\ lastOp.removed = StaleBefore

\* C21: the tracker holds at most one entry per key (data value), whatever
\* use() calls were made.
C21_OneEntryPerKey ==
    \A k \in Keys :
        Cardinality({ i \in 1..Len(list) :
                        list[i].token # NullToken /\ list[i].data = k }) <= 1

\* the tokens of the entries behind the sentry
StaleTokens == EntryTokens(StaleRegion(list, sentryptr))

C30_FlushVisitsLatestFirst ==
    /\ [](Alive =>
            LET IsEntry(le) == le.token # NullToken
                entries == SelectSeq(list, IsEntry)
            IN  /\ Len(entries) = Len(recency)
                /\ \A i \in 1..Len(entries) : entries[i].token = recency[i])
    /\ [][lastOp'.kind = "flush" =>
            LET Stale(t) == t \notin touched
                stale == SelectSeq(recency, Stale)
                n == Len(lastOp'.visited)
            IN  /\ n <= Len(stale)
                /\ lastOp'.visited = SubSeq(stale, 1, n)
                /\ (lastOp'.acceptAll /\ lastOp'.maxCount < Len(stale)) =>
                      /\ lastOp'.removed =
                            { stale[i] : i \in 1..lastOp'.maxCount }
                      /\ { stale[i] : i \in (lastOp'.maxCount + 1)..Len(stale) }
                            \subseteq EntryTokens(list')
       ]_vars

\* C30 witness: of two stale entries a flush() with an accept-all callback
\* and maxCount 1 has erased the one touched later and left the one touched
\* earlier.
C30_Witness ==
    /\ lastOp.kind = "flush" /\ lastOp.acceptAll /\ lastOp.maxCount = 1
    /\ Cardinality(StaleBefore) = 2 /\ lastOp.touched = {}
    /\ Len(lastOp.visited) = 1 /\ lastOp.removed = {lastOp.visited[1]}
    /\ Len(recency) = 1 /\ recency[1] \in StaleBefore

RingInit == RingStart /\ TrackerStart /\ QueueStart /\ BingStart

RingNext ==
    \/ Dispose /\ UNCHANGED <<trackerVars, queueVars, bingVars>>
    \/ update /\ UNCHANGED <<trackerVars, queueVars, bingVars>>
    \/ SetViewer /\ UNCHANGED <<trackerVars, queueVars, bingVars>>
    \/ SetDisposer /\ UNCHANGED <<trackerVars, queueVars, bingVars>>

SpecRing == RingInit /\ [][RingNext]_vars

(***************************************************************************)
(* Claims about the deferred disposal queue.                               *)
(***************************************************************************)
\* object o was queued into the ring by dispose()
Queued(o) == o <= nextObj /\ o \notin disposerGot

\* an execution of the deferred unref block of update()
RingAdvance == update /\ viewerValid

\* C3: an object queued by dispose() into the ring of N generations is still
\* held after each of the first N-1 executions of update()'s deferred unref
\* block that follow the dispose, and is released by exactly the N-th one.
C3_ReleasedByNthUpdate ==
    \A o \in Objects :
        Queued(o) =>
            /\ updatesSeen[o] <= DisposalGenerations
            /\ updatesSeen[o] <= DisposalGenerations - 1
                    => InRing(o) /\ releaseCount[o] = 0
            /\ updatesSeen[o] = DisposalGenerations
                    => ~InRing(o) /\ releaseCount[o] = 1

\* C3 witness: one object has just been released by its N-th update while a
\* later one has survived N-1 updates and is still held.
C3_Witness ==
    \E o, p \in Objects :
        /\ Queued(o) /\ releaseCount[o] = 1 /\ updatesSeen[o] = DisposalGenerations
        /\ Queued(p) /\ InRing(p) /\ updatesSeen[p] = DisposalGenerations - 1

\* the newest generation of the ring
Newest == DisposalGenerations

\* a dispose(object) call with a non-null object
DisposeCall == nextObj' = nextObj + 1

\* C22: the ring always holds exactly N = 8 generations, and after every
\* execution of update()'s deferred unref block the newest generation is
\* empty.
C22_RingHasNGenerations ==
    /\ [](Len(disposal_queue) = DisposalGenerations)
    /\ [][RingAdvance => disposal_queue'[Len(disposal_queue')] = <<>>]_vars

\* C22 witness: update() has left the newest generation empty and the one
\* before it holds an object disposed before that update().
C22_Witness ==
    /\ Len(disposal_queue) = DisposalGenerations
    /\ disposal_queue[Newest] = <<>>
    /\ disposal_queue[Newest - 1] # <<>>

C27_CustomDisposerBypassesRing ==
    /\ [](NullObject \notin disposerGot /\ ~InRing(NullObject))
    /\ [][(DisposeCall /\ disposer) =>
            /\ disposerGot' = disposerGot \cup {nextObj'}
            /\ disposal_queue' = disposal_queue
            /\ releaseCount' = releaseCount
       ]_vars
    /\ [][disposerGot' # disposerGot => (DisposeCall /\ disposer)]_vars

\* C27 witness: the custom disposer was handed an object while the ring
\* still holds just the object queued before the disposer was installed.
C27_Witness ==
    /\ disposer
    /\ \E o \in disposerGot, p \in Objects :
          /\ p < o /\ InRing(p)
          /\ Range(Flatten(disposal_queue)) = {p}

\* C9: every object placed into the ring is released exactly once: no object
\* is ever released twice, and provided update() keeps advancing the ring,
\* an object held by the ring is eventually released.
C9_ReleasedExactlyOnce ==
    /\ [](\A o \in Objects : releaseCount[o] <= 1)
    /\ \A o \in Objects :
          ([]<><<RingAdvance>>_vars) => (InRing(o) ~> (releaseCount[o] = 1 /\ ~InRing(o)))

\* C9 witness: an object has been released once and is no longer held, while
\* another is still waiting in the ring.
C9_Witness ==
    \E o, p \in Objects :
        /\ Queued(o) /\ releaseCount[o] = 1 /\ ~InRing(o)
        /\ InRing(p) /\ releaseCount[p] = 0

\* a call of update()
UpdateCall == updateRet' # "none"

\* C31: an update() called while the viewer is invalid returns false and
\* leaves the ring as it is: no generation is cleared or rotated, no
\* reference is dropped and no queued object moves nearer to its release;
\* the ring advances only in an update() called with a valid viewer, so a
\* queued object is released by the N-th such update() after its dispose(),
\* however many update() calls returned early in between.
C31_InvalidViewerHoldsRing ==
    /\ [][(UpdateCall /\ ~viewerValid) =>
            /\ updateRet' = "false"
            /\ disposal_queue' = disposal_queue
            /\ releaseCount' = releaseCount
            /\ updatesSeen' = updatesSeen
            /\ { o \in Objects : InRing(o) } \subseteq heldOver'
       ]_vars
    /\ [][(disposal_queue' # disposal_queue /\ ~DisposeCall) =>
            (UpdateCall /\ viewerValid)]_vars
    /\ [](\A o \in heldOver :
            /\ InRing(o) => (releaseCount[o] = 0
                              /\ updatesSeen[o] < DisposalGenerations)
            /\ releaseCount[o] >= 1 => updatesSeen[o] = DisposalGenerations)

\* C31 witness: an object that was in the ring during an update() with an
\* invalid viewer has been released, by the N-th ring advance after its
\* dispose().
C31_Witness ==
    \E o \in heldOver :
        /\ releaseCount[o] = 1 /\ ~InRing(o)
        /\ updatesSeen[o] = DisposalGenerations

====
